---- MODULE Spec2Model ----
(***************************************************************************)
(* BrassLoom: harvester (brassloom_harvest.py), sync engine                *)
(* (brassloom_sync_gsu.py) and orchestrator (brassloom_cli.py).            *)
(*                                                                         *)
(* Python strings are modelled as sequences of one-character strings, so   *)
(* that strip, lower, substring search, regular-expression prefixes, date  *)
(* parsing and number formatting are computed character by character.      *)
(* Python's None is the one-element sequence PyNone, which no character    *)
(* sequence equals.                                                        *)
(***************************************************************************)
EXTENDS Integers, Sequences, FiniteSets, TLC

VARIABLES
    opportunities,  \* contents of opportunities.json (a sequence of records)
    wsP,            \* rows of the workbook's Proposals sheet, header excluded
    wsT,            \* rows of the workbook's Tasks sheet, header excluded
    cfg,            \* contents of brassloom_config.yaml
    harvest,        \* what the last harvester run read and computed
    last            \* what the last sync run was given and did

vars == <<opportunities, wsP, wsT, cfg, harvest, last>>

(***************************************************************************)
(* Strings                                                                 *)
(***************************************************************************)
PyNone == <<"None">>

\* Python truthiness of a value that is None or a string.
Truthy(s) == s # PyNone /\ s # <<>>

\* `a or b`
Or(a, b) == IF Truthy(a) THEN a ELSE b

DigitChars == <<"0","1","2","3","4","5","6","7","8","9">>

IsSpace(c) == c \in {" ", "\t", "\n"}
DigitSet == {"0","1","2","3","4","5","6","7","8","9"}
LetterSet == {"A","B","C","D","E","F","G","H","I","J","K","L","M",
              "N","O","P","Q","R","S","T","U","V","W","X","Y","Z",
              "a","b","c","d","e","f","g","h","i","j","k","l","m",
              "n","o","p","q","r","s","t","u","v","w","x","y","z"}

IsDigit(c) == c \in DigitSet
\* what \w matches
IsWordChar(c) == c \in DigitSet \/ c = "_" \/ c \in LetterSet

LowerChar(c) ==
    CASE c = "A" -> "a"
      [] c = "B" -> "b"
      [] c = "C" -> "c"
      [] c = "D" -> "d"
      [] c = "E" -> "e"
      [] c = "F" -> "f"
      [] c = "G" -> "g"
      [] c = "H" -> "h"
      [] c = "I" -> "i"
      [] c = "J" -> "j"
      [] c = "K" -> "k"
      [] c = "L" -> "l"
      [] c = "M" -> "m"
      [] c = "N" -> "n"
      [] c = "O" -> "o"
      [] c = "P" -> "p"
      [] c = "Q" -> "q"
      [] c = "R" -> "r"
      [] c = "S" -> "s"
      [] c = "T" -> "t"
      [] c = "U" -> "u"
      [] c = "V" -> "v"
      [] c = "W" -> "w"
      [] c = "X" -> "x"
      [] c = "Y" -> "y"
      [] c = "Z" -> "z"
      [] OTHER -> c

\* str.lower()
Lower(s) == [i \in 1..Len(s) |-> LowerChar(s[i])] \o <<>>

RECURSIVE LStrip(_)
LStrip(s) == IF s # <<>> /\ IsSpace(Head(s)) THEN LStrip(Tail(s)) ELSE s

RECURSIVE RStrip(_)
RStrip(s) ==
    IF s # <<>> /\ IsSpace(s[Len(s)]) THEN RStrip(SubSeq(s, 1, Len(s) - 1)) ELSE s

\* str.strip()
Strip(s) == RStrip(LStrip(s))

\* `sub in s`
\* s[i:i+len(sub)] == sub (i counted from 1)
MatchAt(sub, s, i) == \A j \in 1..Len(sub) : s[i + j - 1] = sub[j]

Contains(sub, s) == \E i \in 1..(Len(s) - Len(sub) + 1) : MatchAt(sub, s, i)

\* s[:n]
Take(s, n) == SubSeq(s, 1, IF Len(s) < n THEN Len(s) ELSE n)

\* re.search(r'\bWORD\b', text, re.I) on an already lower-cased text
HasWord(w, text) ==
    \E i \in 1..(Len(text) - Len(w) + 1) :
        /\ MatchAt(w, text, i)
        /\ (i = 1 \/ ~IsWordChar(text[i - 1]))
        /\ (i + Len(w) - 1 = Len(text) \/ ~IsWordChar(text[i + Len(w)]))

RECURSIVE Join(_, _)
\* sep.join(parts)
Join(sep, parts) ==
    IF parts = <<>> THEN <<>>
    ELSE IF Len(parts) = 1 THEN parts[1]
    ELSE parts[1] \o sep \o Join(sep, Tail(parts))

RECURSIVE Split(_, _)
\* s.split(sep) for a one-character separator
Split(s, sep) ==
    IF \A i \in 1..Len(s) : s[i] # sep THEN <<s>>
    ELSE LET k == CHOOSE i \in 1..Len(s) :
                      /\ s[i] = sep
                      /\ \A j \in 1..(i - 1) : s[j] # sep
         IN  <<SubSeq(s, 1, k - 1)>> \o Split(SubSeq(s, k + 1, Len(s)), sep)

AllDigits(s) == s # <<>> /\ \A i \in 1..Len(s) : IsDigit(s[i])

DigitVal(c) == (CHOOSE i \in 1..10 : DigitChars[i] = c) - 1

RECURSIVE ToInt(_)
\* int(s) for a string of decimal digits
ToInt(s) ==
    IF s = <<>> THEN 0
    ELSE ToInt(SubSeq(s, 1, Len(s) - 1)) * 10 + DigitVal(s[Len(s)])

RECURSIVE Digits(_)
\* str(n) for n >= 0
Digits(n) ==
    IF n < 10 THEN <<DigitChars[n + 1]>>
    ELSE Digits(n \div 10) \o <<DigitChars[(n % 10) + 1]>>

RECURSIVE ZeroPad(_, _)
ZeroPad(s, w) == IF Len(s) >= w THEN s ELSE ZeroPad(<<"0">> \o s, w)

\* f"{n:0{w}d}" for n >= 0
Fmt(n, w) == ZeroPad(Digits(n), w)

\* the longest run of digits at the start of s: what (\d+) matches there
RECURSIVE LeadDigits(_)
LeadDigits(s) ==
    IF s # <<>> /\ IsDigit(Head(s)) THEN <<Head(s)>> \o LeadDigits(Tail(s)) ELSE <<>>

StartsWith(s, p) == Len(s) >= Len(p) /\ MatchAt(p, s, 1)

\* re.match(prefix(\d+), s): the digits of group 1, or <<>> when there is no match
MatchNum(prefix, s) ==
    IF StartsWith(s, prefix)
    THEN LeadDigits(SubSeq(s, Len(prefix) + 1, Len(s)))
    ELSE <<>>

RECURSIVE SeqMax(_)
SeqMax(ns) ==
    IF Len(ns) = 1 THEN ns[1]
    ELSE LET m == SeqMax(Tail(ns)) IN IF ns[1] > m THEN ns[1] ELSE m

(***************************************************************************)
(* Dates: datetime.date as [y, m, d]; None as NoDate.                      *)
(***************************************************************************)
NoDate == [y |-> 0, m |-> 0, d |-> 0]

IsLeap(y) == y % 4 = 0 /\ (y % 100 # 0 \/ y % 400 = 0)

DaysInMonth(y, m) ==
    IF m = 2 THEN (IF IsLeap(y) THEN 29 ELSE 28)
    ELSE IF m \in {4, 6, 9, 11} THEN 30 ELSE 31

DaysBeforeMonthTable == <<0, 31, 59, 90, 120, 151, 181, 212, 243, 273, 304, 334>>

DaysBeforeMonth(y, m) ==
    DaysBeforeMonthTable[m] + (IF m > 2 /\ IsLeap(y) THEN 1 ELSE 0)

DaysBeforeYear(y) ==
    (y - 1) * 365 + ((y - 1) \div 4) - ((y - 1) \div 100) + ((y - 1) \div 400)

\* date.toordinal()
ToOrdinal(dt) == DaysBeforeYear(dt.y) + DaysBeforeMonth(dt.y, dt.m) + dt.d

\* date.fromordinal(n)
FromOrdinal(n) ==
    LET n0   == n - 1
        n400 == n0 \div 146097
        r400 == n0 % 146097
        n100 == r400 \div 36524
        r100 == r400 % 36524
        n4   == r100 \div 1461
        r4   == r100 % 1461
        n1   == r4 \div 365
        r1   == r4 % 365
        year == n400 * 400 + 1 + n100 * 100 + n4 * 4 + n1
    IN  IF n1 = 4 \/ n100 = 4
        THEN [y |-> year - 1, m |-> 12, d |-> 31]
        ELSE LET leap  == n1 = 3 /\ (n4 # 24 \/ n100 = 3)
                 lp(k) == IF k THEN 1 ELSE 0
                 mon0  == (r1 + 50) \div 32
                 pre0  == DaysBeforeMonthTable[mon0] + lp(mon0 > 2 /\ leap)
                 mon   == IF pre0 > r1 THEN mon0 - 1 ELSE mon0
                 pre   == IF pre0 > r1
                          THEN pre0 - (DaysInMonth(year, mon))
                          ELSE pre0
             IN  [y |-> year, m |-> mon, d |-> r1 - pre + 1]

\* date - timedelta(days=n)
DateMinus(dt, n) == FromOrdinal(ToOrdinal(dt) - n)

\* date.isoformat()
IsoFormat(dt) == Fmt(dt.y, 4) \o <<"-">> \o Fmt(dt.m, 2) \o <<"-">> \o Fmt(dt.d, 2)

ValidYMD(y, m, d) ==
    /\ y >= 1
    /\ m \in 1..12
    /\ d >= 1
    /\ d <= DaysInMonth(y, m)

\* strptime's %Y: exactly four digits
IsYearField(s) == Len(s) = 4 /\ AllDigits(s)
\* strptime's %m and %d: one or two digits (%d also a space and a digit)
IsShortField(s) == Len(s) \in {1, 2} /\ AllDigits(s)
IsDayField(s) ==
    \/ IsShortField(s)
    \/ (Len(s) = 2 /\ s[1] = " " /\ IsDigit(s[2]) /\ s[2] # "0")
DayVal(s) == IF s[1] = " " THEN DigitVal(s[2]) ELSE ToInt(s)

\* date(y, m, d); NoDate stands for the ValueError
MakeDate(y, m, d) == IF ValidYMD(y, m, d) THEN [y |-> y, m |-> m, d |-> d] ELSE NoDate

\* the three fields a strptime format matched, converted
StrptimeFields(ys, ms, ds) ==
    IF IsYearField(ys) /\ IsShortField(ms) /\ IsDayField(ds)
    THEN MakeDate(ToInt(ys), ToInt(ms), DayVal(ds))
    ELSE NoDate

StrptimeParts(p, order) ==
    IF Len(p) # 3 THEN NoDate
    ELSE IF order = "ymd" THEN StrptimeFields(p[1], p[2], p[3])
    ELSE StrptimeFields(p[3], p[1], p[2])

\* datetime.strptime(s, fmt).date() for the three formats of parse_date
\* (fields in the order `order`, separated by sep); NoDate stands for the
\* ValueError.
Strptime(s, sep, order) == StrptimeParts(Split(s, sep), order)

\* datetime.fromisoformat(s) of a date-only string: YYYY-MM-DD exactly;
\* NoDate stands for the ValueError.
FromIsoFormat(s) ==
    IF /\ Len(s) = 10
       /\ s[5] = "-"
       /\ s[8] = "-"
       /\ \A i \in {1, 2, 3, 4, 6, 7, 9, 10} : IsDigit(s[i])
    THEN MakeDate(ToInt(SubSeq(s, 1, 4)), ToInt(SubSeq(s, 6, 7)), ToInt(SubSeq(s, 9, 10)))
    ELSE NoDate

(***************************************************************************)
(* Clock.  datetime.utcnow() is an instant, counted in ticks of            *)
(* 1/TicksPerDay of a day since the start of ordinal day 0; a date parsed  *)
(* by fromisoformat is the instant at which that day starts.               *)
(***************************************************************************)
TicksPerDay == 2

Midnight(dt) == ToOrdinal(dt) * TicksPerDay

\* timedelta.days of (a - b), both instants: the floor of the difference
DeltaDays(a, b) == (a - b) \div TicksPerDay

\* the calendar day (UTC) an instant falls on
DayOf(now) == now \div TicksPerDay

(***************************************************************************)
(* Harvester (brassloom_harvest.py)                                        *)
(***************************************************************************)
\* str(x) of a value that is None or a string
Str(x) == IF x = PyNone THEN <<"N","o","n","e">> ELSE x

KwHBCU == <<"h","b","c","u">>
KwMSI  == <<"m","s","i">>

\* [k.strip() for k in s.split(",") if k.strip()]
RECURSIVE StripNonEmpty(_)
StripNonEmpty(parts) ==
    IF parts = <<>> THEN <<>>
    ELSE (IF Strip(parts[1]) # <<>> THEN <<Strip(parts[1])>> ELSE <<>>)
         \o StripNonEmpty(Tail(parts))

ParseKeywords(s) == StripNonEmpty(Split(s, ","))

\* within_days once the date string parsed to dt
WithinOf(dt, days, now) ==
    IF dt = NoDate THEN TRUE ELSE DeltaDays(now, Midnight(dt)) <= days

within_days(date_str, days, now) ==
    IF ~Truthy(date_str) THEN TRUE
    ELSE WithinOf(FromIsoFormat(Take(date_str, 10)), days, now)

\* the text score_item searches
ScoreText(item) ==
    Lower(Join(<<" ">>, <<Str(item.title), Str(item.description), Str(item.eligibility),
                         Str(item.agency), Str(item.source)>>))

RECURSIVE KeywordPoints(_, _)
KeywordPoints(text, keywords) ==
    IF keywords = <<>> THEN 0
    ELSE (IF Contains(Lower(keywords[1]), text) THEN 10 ELSE 0)
         + KeywordPoints(text, Tail(keywords))

\* the "time urgency boost" of score_item
UrgencyPoints(days_left) ==
    IF 0 <= days_left /\ days_left <= 30 THEN 10
    ELSE IF 31 <= days_left /\ days_left <= 60 THEN 5
    ELSE 0

\* the boost for a close date that parsed to cdt
UrgencyOf(cdt, now) ==
    IF cdt = NoDate THEN 0 ELSE UrgencyPoints(DeltaDays(Midnight(cdt), now))

UrgencyBonus(item, now) ==
    IF ~Truthy(item.close_date) THEN 0
    ELSE UrgencyOf(FromIsoFormat(Take(item.close_date, 10)), now)

\* the points score_item gives for the text
TextPoints(text, keywords) ==
    KeywordPoints(text, keywords)
    + (IF HasWord(KwHBCU, text) THEN 20 ELSE 0)
    + (IF HasWord(KwMSI, text) THEN 15 ELSE 0)

score_item(item, keywords, now) ==
    TextPoints(ScoreText(item), keywords) + UrgencyBonus(item, now)

\* one element of data["opportunities"] mapped to the common record
GrantsGovItem(opp) ==
    [id                 |-> Or(opp.opportunityNumber, opp.opportunityId),
     source             |-> <<"G","r","a","n","t","s",".","g","o","v">>,
     title              |-> opp.title,
     agency             |-> opp.agency,
     assistance_listing |-> opp.cfdaNumber,
     posted_date        |-> opp.openDate,
     close_date         |-> opp.closeDate,
     eligibility        |-> Join(<<",", " ">>, opp.eligibility),
     url                |-> opp.url,
     tags               |-> opp.category,
     description        |-> Take(opp.synopsis, 1500),
     hbcu_msi_score     |-> 0]

\* `if within_days(itm.get("posted_date",""), days): out.append(itm)`
KeepWithin(itm, days, now) ==
    IF within_days(itm.posted_date, days, now) THEN <<itm>> ELSE <<>>

RECURSIVE fetch_grants_gov(_, _, _)
\* data: the opportunities list of the Search2 response
fetch_grants_gov(data, days, now) ==
    IF data = <<>> THEN <<>>
    ELSE KeepWithin(GrantsGovItem(data[1]), days, now)
         \o fetch_grants_gov(Tail(data), days, now)

\* one feed entry mapped to the common record; e.published is the parsed
\* publication date, NoDate when the entry has none
RssItem(e, source_name) ==
    [id                 |-> Or(e.id, e.link),
     source             |-> source_name,
     title              |-> e.title,
     agency             |-> source_name,
     assistance_listing |-> <<>>,
     posted_date        |-> IF e.published = NoDate THEN <<>> ELSE IsoFormat(e.published),
     close_date         |-> <<>>,
     eligibility        |-> <<>>,
     url                |-> e.link,
     tags               |-> <<>>,
     description        |-> e.summary,
     hbcu_msi_score     |-> 0]

fetch_rss(entries, source_name) ==
    [i \in 1..Len(entries) |-> RssItem(entries[i], source_name)]

\* any(kw.lower() in (i["title"]+" "+i["description"]).lower() for kw in keywords)
RssKeep(i, keywords) ==
    \E k \in 1..Len(keywords) :
        Contains(Lower(keywords[k]), Lower(i.title \o <<" ">> \o i.description))

RECURSIVE RssFilter(_, _)
RssFilter(items, keywords) ==
    IF items = <<>> THEN <<>>
    ELSE (IF RssKeep(items[1], keywords) THEN <<items[1]>> ELSE <<>>)
         \o RssFilter(Tail(items), keywords)

SrcNIH == <<"N","I","H"," ","G","u","i","d","e">>
SrcNSF == <<"N","S","F"," ","F","u","n","d","i","n","g">>

\* a fetch that raised contributes nothing
Fetched(res, items) == IF res.ok THEN items ELSE <<>>

ScoreAll(items, keywords, now) ==
    [i \in 1..Len(items) |->
        [items[i] EXCEPT !.hbcu_msi_score = score_item(items[i], keywords, now)]]

\* a key that prefers the id to the url
DedupKeyIdFirst(i) == Or(i.id, i.url)

\* i.get("url") or i.get("id")
DedupKey(i) == Or(i.url, i.id)

RECURSIVE DedupLoop(_, _, _)
DedupLoop(items, seen, deduped) ==
    IF items = <<>> THEN deduped
    ELSE LET key == DedupKey(items[1])
         IN  IF key \in seen
             THEN DedupLoop(Tail(items), seen, deduped)
             ELSE DedupLoop(Tail(items), seen \cup {key}, Append(deduped, items[1]))

Dedup(items) == DedupLoop(items, {}, <<>>)

\* an insertion that goes ahead of the elements of equal score
InsertDescUnstable(sorted, x) ==
    LET ahead == {i \in 1..Len(sorted) : sorted[i].hbcu_msi_score > x.hbcu_msi_score}
        k     == IF ahead = {} THEN 0 ELSE CHOOSE i \in ahead : \A j \in ahead : j <= i
    IN  SubSeq(sorted, 1, k) \o <<x>> \o SubSeq(sorted, k + 1, Len(sorted))

\* list.sort(key=score, reverse=True) is stable: an element goes behind every
\* element placed before it whose score is not smaller
InsertDesc(sorted, x) ==
    LET ahead == {i \in 1..Len(sorted) : sorted[i].hbcu_msi_score >= x.hbcu_msi_score}
        k     == IF ahead = {} THEN 0 ELSE CHOOSE i \in ahead : \A j \in ahead : j <= i
    IN  SubSeq(sorted, 1, k) \o <<x>> \o SubSeq(sorted, k + 1, Len(sorted))

RECURSIVE SortLoop(_, _)
SortLoop(items, sorted) ==
    IF items = <<>> THEN sorted
    ELSE SortLoop(Tail(items), InsertDesc(sorted, items[1]))

SortByScoreDesc(items) == SortLoop(items, <<>>)

(***************************************************************************)
(* Sync engine (brassloom_sync_gsu.py)                                     *)
(***************************************************************************)
\* json.dumps of one character inside a string
JsonChar(c) ==
    IF c = "\"" THEN <<"\\", "\"">>
    ELSE IF c = "\\" THEN <<"\\", "\\">>
    ELSE IF c = "\n" THEN <<"\\", "n">>
    ELSE IF c = "\t" THEN <<"\\", "t">>
    ELSE <<c>>

RECURSIVE JsonChars(_)
JsonChars(s) == IF s = <<>> THEN <<>> ELSE JsonChar(Head(s)) \o JsonChars(Tail(s))

\* json.dumps of a value that is None or a string
JsonStr(x) ==
    IF x = PyNone THEN <<"n","u","l","l">>
    ELSE <<"\"">> \o JsonChars(x) \o <<"\"">>

\* json.dumps of a list of strings
JsonList(xs) ==
    <<"[">> \o Join(<<",", " ">>, [i \in 1..Len(xs) |-> JsonStr(xs[i])]) \o <<"]">>

\* the keys of a record of the opportunities file, in file order
ItemKeys == <<"id", "source", "title", "agency", "assistance_listing", "posted_date",
              "close_date", "eligibility", "url", "tags", "description", "hbcu_msi_score">>
\* the same keys as json.dumps writes them
ItemKeyText ==
    <<<<"\"","i","d","\"",":"," ">>,
      <<"\"","s","o","u","r","c","e","\"",":"," ">>,
      <<"\"","t","i","t","l","e","\"",":"," ">>,
      <<"\"","a","g","e","n","c","y","\"",":"," ">>,
      <<"\"","a","s","s","i","s","t","a","n","c","e","_","l","i","s","t","i","n","g","\"",":"," ">>,
      <<"\"","p","o","s","t","e","d","_","d","a","t","e","\"",":"," ">>,
      <<"\"","c","l","o","s","e","_","d","a","t","e","\"",":"," ">>,
      <<"\"","e","l","i","g","i","b","i","l","i","t","y","\"",":"," ">>,
      <<"\"","u","r","l","\"",":"," ">>,
      <<"\"","t","a","g","s","\"",":"," ">>,
      <<"\"","d","e","s","c","r","i","p","t","i","o","n","\"",":"," ">>,
      <<"\"","h","b","c","u","_","m","s","i","_","s","c","o","r","e","\"",":"," ">>>>

JsonValue(o, key) ==
    IF key = "tags" THEN JsonList(o[key])
    ELSE IF key = "hbcu_msi_score" THEN Digits(o[key])
    ELSE JsonStr(o[key])

\* json.dumps(o) of a record of the opportunities file
JsonDumps(o) ==
    <<"{">>
    \o Join(<<",", " ">>,
            [i \in 1..Len(ItemKeys) |-> ItemKeyText[i] \o JsonValue(o, ItemKeys[i])])
    \o <<"}">>

\* cfg.get(key, default): cfg.present holds the keys the file sets
CfgGet(c, key, default) == IF key \in c.present THEN c[key] ELSE default

DefaultOffsetDays == 7

\* the formats parse_date tries, in order
DateFormats ==
    <<[sep |-> "-", order |-> "ymd"], [sep |-> "/", order |-> "mdy"],
      [sep |-> "/", order |-> "ymd"]>>

\* `a`, unless it is the ValueError
OrDate(a, b) == IF a # NoDate THEN a ELSE b

RECURSIVE TryFormats(_, _)
TryFormats(s, k) ==
    IF k > Len(DateFormats) THEN NoDate
    ELSE OrDate(Strptime(s, DateFormats[k].sep, DateFormats[k].order), TryFormats(s, k + 1))

parse_date(s) == IF ~Truthy(s) THEN NoDate ELSE TryFormats(Take(s, 10), 1)

PidPrefix == <<"G","S","U","-","P","-">>
TskPrefix == <<"T","S","K","-">>

RECURSIVE ScanNums(_, _)
\* the nums list built by next_id and next_task_id, in the order of the ids
ScanNums(existing_ids, prefix) ==
    IF existing_ids = <<>> THEN <<>>
    ELSE LET m == MatchNum(prefix, Str(existing_ids[1]))
         IN  (IF m # <<>> THEN <<ToInt(m)>> ELSE <<>>)
             \o ScanNums(Tail(existing_ids), prefix)

\* an id that follows the last id scanned instead of the largest
next_id_after_last(existing_ids, prefix) ==
    LET nums == ScanNums(existing_ids, prefix)
        nxt  == IF nums # <<>> THEN nums[Len(nums)] + 1 ELSE 1
    IN  prefix \o Fmt(nxt, 4)

next_id(existing_ids, prefix) ==
    LET nums == ScanNums(existing_ids, prefix)
        nxt  == IF nums # <<>> THEN SeqMax(nums) + 1 ELSE 1
    IN  prefix \o Fmt(nxt, 4)

\* next_task_id(existing_ids): the list the returned closure captures
next_task_id(existing_ids) == ScanNums(existing_ids, TskPrefix)

\* one call of the closure: the list after the call, and the id returned
next_task(nums) ==
    LET n == IF nums # <<>> THEN nums[Len(nums)] + 1 ELSE 1
    IN  [nums |-> Append(nums, n), id |-> TskPrefix \o Fmt(n, 4)]

FederalWords ==
    <<<<"n","a","t","i","o","n","a","l"," ","s","c","i","e","n","c","e"," ","f","o","u","n","d","a","t","i","o","n">>,
      <<"n","i","h">>,
      <<"h","e","a","l","t","h">>,
      <<"g","r","a","n","t","s",".","g","o","v">>,
      <<"n","a","s","a">>,
      <<"n","s","f">>,
      <<"d","e","p","a","r","t","m","e","n","t"," ","o","f">>,
      <<"d","o","d">>,
      <<"d","o","e">>,
      <<"u","s","d","a">>,
      <<"e","p","a">>,
      <<"n","s","f"," ","f","u","n","d","i","n","g">>,
      <<"n","i","h"," ","g","u","i","d","e">>>>

sponsor_type_from_agency(agency) ==
    IF agency = <<>> THEN <<>>
    ELSE LET agency_low == Lower(agency)
         IN  IF \E i \in 1..Len(FederalWords) : Contains(FederalWords[i], agency_low)
             THEN <<"F","e","d","e","r","a","l">>
             ELSE IF \/ Contains(<<"b","o","a","r","d"," ","o","f"," ","r","e","g","e","n","t","s">>, agency_low)
                     \/ Contains(<<"s","t","a","t","e">>, agency_low)
             THEN <<"S","t","a","t","e">>
             ELSE <<"N","o","n","p","r","o","f","i","t">>

GrantsGovDomain == <<"g","r","a","n","t","s",".","g","o","v">>

\* the first entry of mechanism_map whose key occurs in src, 0 when none does
MechanismHit(src, map) ==
    LET hits == {i \in 1..Len(map) : Contains(Lower(map[i].k), Lower(src))}
    IN  IF hits = {} THEN 0 ELSE CHOOSE i \in hits : \A j \in hits : i <= j

\* src of mechanism_from_source
MechanismSrc(item) == Strip(Or(Or(item.source, item.agency), <<>>))

\* item.get("url","").lower() raises when no key matches and the url is null
MechanismRaises(item, c) ==
    /\ item.url = PyNone
    /\ MechanismHit(MechanismSrc(item), CfgGet(c, "mechanism_map", <<>>)) = 0

MechanismOf(map, hit, url) ==
    IF hit # 0 THEN map[hit].v
    ELSE IF Contains(GrantsGovDomain, Lower(url)) THEN <<"G","r","a","n","t","s",".","g","o","v">>
    ELSE <<"O","t","h","e","r">>

mechanism_from_source(item, c) ==
    MechanismOf(CfgGet(c, "mechanism_map", <<>>),
                MechanismHit(MechanismSrc(item), CfgGet(c, "mechanism_map", <<>>)),
                item.url)

\* a numeric cell of the workbook (SubawardsCount)
IntCell(n) == <<"#int">> \o Digits(n)

\* truthiness of a cell: None, "" and 0 are false
CellTruthy(cell) ==
    IF cell # <<>> /\ cell[1] = "#int" THEN ToInt(Tail(cell)) # 0 ELSE Truthy(cell)

\* any(row)
RowAny(row) == \E i \in 1..Len(row) : CellTruthy(row[i])

No      == <<"N","o">>
Yes     == <<"Y","e","s">>
Pending == <<"P","e","n","d","i","n","g">>

FallbackAnchorDays == 30

\* the tasks table of prepare_rows: name, days before the anchor, owner, notes
TaskTable(mechanism) ==
    <<
      [name |-> <<"C","o","m","p","l","e","t","e"," ","G","S","U"," ","I","n","t","e","r","n","a","l"," ","R","o","u","t","i","n","g"," ","F","o","r","m">>,
       days |-> 10, owner |-> <<"P","I">>, notes |-> <<"A","t","t","a","c","h"," ","s","i","g","n","e","d"," ","P","D","F">>],
      [name |-> <<"C","O","I"," ","D","i","s","c","l","o","s","u","r","e","s"," ","f","o","r"," ","a","l","l"," ","k","e","y"," ","p","e","r","s","o","n","n","e","l">>,
       days |-> 9, owner |-> <<"P","I","/","O","S","P">>, notes |-> <<>>],
      [name |-> <<"S","u","b","r","e","c","i","p","i","e","n","t"," ","C","o","m","m","i","t","m","e","n","t"," ","F","o","r","m","(","s",")">>,
       days |-> 8, owner |-> <<"O","S","P">>, notes |-> <<"C","o","l","l","e","c","t"," ","U","E","I"," ","a","n","d"," ","F","&","A"," ","r","a","t","e"," ","d","o","c","s">>],
      [name |-> <<"E","x","p","o","r","t"," ","C","o","n","t","r","o","l"," ","&"," ","D","a","t","a"," ","S","e","c","u","r","i","t","y"," ","r","e","v","i","e","w">>,
       days |-> 8, owner |-> <<"C","o","m","p","l","i","a","n","c","e">>, notes |-> <<"I","f"," ","f","o","r","e","i","g","n"," ","c","o","l","l","a","b","o","r","a","t","o","r","s"," ","o","r"," ","c","o","n","t","r","o","l","l","e","d"," ","d","a","t","a">>],
      [name |-> <<"F","i","n","a","l"," ","B","u","d","g","e","t"," ","&"," ","J","u","s","t","i","f","i","c","a","t","i","o","n">>,
       days |-> 7, owner |-> <<"O","S","P"," ","P","r","e","-","A","w","a","r","d">>, notes |-> <<"C","h","e","c","k"," ","s","a","l","a","r","y"," ","c","a","p"," ","a","n","d"," ","F","&","A"," ","b","a","s","e">>],
      [name |-> <<"C","r","e","a","t","e"," ","a","p","p","l","i","c","a","t","i","o","n"," ","i","n"," ">> \o mechanism,
       days |-> 7, owner |-> <<"O","S","P"," ","P","r","e","-","A","w","a","r","d">>, notes |-> <<"C","o","n","f","i","r","m"," ","F","O","A"," ","&"," ","f","o","r","m","s">>],
      [name |-> <<"D","e","a","n","/","P","r","o","v","o","s","t"," ","c","o","s","t","-","s","h","a","r","e"," ","l","e","t","t","e","r"," ","(","i","f"," ","r","e","q","u","i","r","e","d",")">>,
       days |-> 7, owner |-> <<"D","e","a","n","/","P","r","o","v","o","s","t">>, notes |-> <<"U","p","l","o","a","d"," ","l","e","t","t","e","r">>]
    >>

\* the tasks list of prepare_rows, t(n) computed from the anchor due_for_tasks
TaskList(table, due_for_tasks) ==
    [i \in 1..Len(table) |->
        [name   |-> table[i].name,
         due    |-> IsoFormat(DateMinus(due_for_tasks, table[i].days)),
         owner  |-> table[i].owner,
         status |-> Pending,
         notes  |-> table[i].notes]] \o <<>>

\* date.isoformat() of a date, "" of None
IsoOrEmpty(dt) == IF dt # NoDate THEN IsoFormat(dt) ELSE <<>>

\* due - timedelta(days=offset) if due else None
InternalDeadline(due, offset) == IF due # NoDate THEN DateMinus(due, offset) ELSE NoDate

\* an anchor that falls back to today itself
DueForTasksToday(due, today) == IF due # NoDate THEN due ELSE today

\* due or (date.today() + timedelta(days=30))
DueForTasks(due, today) ==
    IF due # NoDate THEN due ELSE FromOrdinal(ToOrdinal(today) + FallbackAnchorDays)

\* a due date that prefers the posted date
DueDatePostedFirst(close_date, posted) == IF posted # NoDate THEN posted ELSE close_date

\* close_date or posted
DueDate(close_date, posted) == IF close_date # NoDate THEN close_date ELSE posted

\* props_row of prepare_rows
PropsRow(item, c, next_pid, today, sponsor, due, mechanism) ==
    << next_pid,
       Strip(item.title),
       c.default_pi.id,
       c.default_pi.name,
       c.default_pi.dept,
       c.default_pi.college,
       <<>>,
       sponsor,
       sponsor_type_from_agency(sponsor),
       Or(Or(item.id, item.assistance_listing), <<>>),
       IsoOrEmpty(InternalDeadline(due, CfgGet(c, "internal_deadline_offset_days",
                                               DefaultOffsetDays))),
       IsoOrEmpty(due),
       mechanism,
       CfgGet(c, "default_proposal_type", <<"N","e","w">>),
       CfgGet(c, "default_status", <<"D","e","p","a","r","t","m","e","n","t"," ","R","e","v","i","e","w">>),
       <<>>, <<>>, <<>>,
       <<>>, <<>>, <<>>,
       No, <<>>, <<>>,
       No, No, No, Yes, No, No,
       IntCell(0),
       <<"I","m","p","o","r","t","e","d"," ","b","y"," ","B","r","a","s","s","L","o","o","m"," ","o","n"," ">> \o IsoFormat(today) >>

\* prepare_rows once due and the mechanism (props_row[12]) are computed
PreparedRows(item, c, next_pid, today, due, mechanism) ==
    [props_row |-> PropsRow(item, c, next_pid, today,
                            Strip(Or(Or(item.agency, item.source), <<>>)), due, mechanism),
     tasks     |-> TaskList(TaskTable(mechanism), DueForTasks(due, today))]

\* prepare_rows(item, cfg, next_pid); today is date.today()
prepare_rows(item, c, next_pid, today) ==
    PreparedRows(item, c, next_pid, today,
                 DueDate(parse_date(item.close_date), parse_date(item.posted_date)),
                 mechanism_from_source(item, c))

\* columns of a Proposals row (1-based)
ColProposalID == 1
ColTitle == 2
ColInternalDeadline == 11
ColDueDate == 12

RECURSIVE ScanProposalsIdsOnly(_, _)
\* a scan that collects the ids and no title
ScanProposalsIdsOnly(rows, acc) ==
    IF rows = <<>> THEN acc
    ELSE IF ~RowAny(rows[1]) THEN ScanProposalsIdsOnly(Tail(rows), acc)
    ELSE ScanProposalsIdsOnly(Tail(rows),
           [existing_ids    |-> Append(acc.existing_ids, Str(rows[1][ColProposalID])),
            existing_titles |-> acc.existing_titles])

\* the scan of the Proposals sheet at the start of main
RECURSIVE ScanProposals(_, _)
ScanProposals(rows, acc) ==
    IF rows = <<>> THEN acc
    ELSE IF ~RowAny(rows[1]) THEN ScanProposals(Tail(rows), acc)
    ELSE ScanProposals(Tail(rows),
           [existing_ids    |-> Append(acc.existing_ids, Str(rows[1][ColProposalID])),
            existing_titles |->
                IF Truthy(rows[1][ColTitle])
                THEN acc.existing_titles \cup {Lower(Strip(Str(rows[1][ColTitle])))}
                ELSE acc.existing_titles])

\* [r[0] for r in wsT.iter_rows(min_row=2, values_only=True) if r and r[0]]
RECURSIVE TaskIds(_)
TaskIds(rows) ==
    IF rows = <<>> THEN <<>>
    ELSE (IF rows[1] # <<>> /\ Truthy(rows[1][1]) THEN <<rows[1][1]>> ELSE <<>>)
         \o TaskIds(Tail(rows))

\* [s.strip().lower() for s in args.filter.split(",") if s.strip()]
ParseFilter(s) ==
    LET ks == StripNonEmpty(Split(s, ","))
    IN  [i \in 1..Len(ks) |-> Lower(ks[i])]

RECURSIVE FilterOps(_, _)
FilterOps(ops, flt) ==
    IF ops = <<>> THEN <<>>
    ELSE LET blob == Lower(JsonDumps(ops[1]))
         IN  (IF \E k \in 1..Len(flt) : Contains(flt[k], blob) THEN <<ops[1]>> ELSE <<>>)
             \o FilterOps(Tail(ops), flt)

\* the records main selects: args is [all, filter]
Chosen(ops, args, c) ==
    IF args.all THEN ops
    ELSE LET given == ParseFilter(args.filter)
             flt   == IF given = <<>>
                      THEN [i \in 1..Len(c.keywords) |-> Lower(c.keywords[i])]
                      ELSE given
         IN  FilterOps(ops, flt)

RECURSIVE AppendTasks(_, _, _, _)
\* the inner loop of main: one Tasks row per prepared task
AppendTasks(tasks, pid, T, nums) ==
    IF tasks = <<>> THEN [T |-> T, nums |-> nums]
    ELSE LET nt == next_task(nums)
             tk == tasks[1]
         IN  AppendTasks(Tail(tasks), pid,
                         Append(T, <<nt.id, pid, tk.name, tk.due, tk.owner, tk.status, tk.notes>>),
                         nt.nums)

\* a title compared with its case kept
NormTitleCased(item) == Strip(Or(item.title, <<>>))

\* the title main compares: (item.get("title") or "").strip().lower()
NormTitle(item) == Lower(Strip(Or(item.title, <<>>)))

\* the proposal id after next_pid
BumpPid(next_pid) ==
    LET m == MatchNum(PidPrefix, next_pid)
    IN  PidPrefix \o Fmt(IF m # <<>> THEN ToInt(m) + 1 ELSE 1, 4)

\* the loop state after the body of main's loop appended the rows pr of item;
\* at is the Tasks sheet and the closure's list after the seven appends
Imported(st, item, pr, at) ==
    [P               |-> Append(st.P, pr.props_row),
     T               |-> at.T,
     nums            |-> at.nums,
     existing_titles |-> st.existing_titles \cup {NormTitle(item)},
     existing_ids    |-> Append(st.existing_ids, st.next_pid),
     next_pid        |-> BumpPid(st.next_pid),
     added           |-> st.added + 1,
     imported        |-> Append(st.imported, item),
     raised          |-> FALSE]

\* the body of main's loop for a record that is not skipped
ImportWith(st, item, pr) ==
    Imported(st, item, pr, AppendTasks(pr.tasks, pr.props_row[ColProposalID], st.T, st.nums))

\* `not title or title in existing_titles`
Skipped(title, existing_titles) == title = <<>> \/ title \in existing_titles

RECURSIVE ImportLoop(_, _, _, _)
\* the loop of main over the chosen records; st.imported lists the records
\* for which rows were appended, st.raised tells an uncaught exception
ImportLoop(items, st, c, today) ==
    IF items = <<>> \/ st.raised THEN st
    ELSE IF Skipped(NormTitle(items[1]), st.existing_titles)
    THEN ImportLoop(Tail(items), st, c, today)
    ELSE IF MechanismRaises(items[1], c)
    THEN [st EXCEPT !.raised = TRUE]
    ELSE ImportLoop(Tail(items),
                    ImportWith(st, items[1], prepare_rows(items[1], c, st.next_pid, today)),
                    c, today)

\* main once the Proposals sheet is scanned
SyncScanned(ops, P, T, c, args, today, scan) ==
    ImportLoop(Chosen(ops, args, c),
               [P               |-> P,
                T               |-> T,
                nums            |-> next_task_id(TaskIds(T)),
                existing_titles |-> scan.existing_titles,
                existing_ids    |-> scan.existing_ids,
                next_pid        |-> next_id(scan.existing_ids, PidPrefix),
                added           |-> 0,
                imported        |-> <<>>,
                raised          |-> FALSE],
               c, today)

\* main of brassloom_sync_gsu.py on an existing workbook, up to wb.save
SyncRun(ops, P, T, c, args, today) ==
    SyncScanned(ops, P, T, c, args, today,
                ScanProposals(P, [existing_ids |-> <<>>, existing_titles |-> {}]))

\* main of brassloom_harvest.py from the de-duplication on
HarvestDeduped(gg, nih, nsf, keywords, now, all_items, deduped) ==
    [ran       |-> TRUE,
     gg        |-> gg,
     nih       |-> nih,
     nsf       |-> nsf,
     keywords  |-> keywords,
     now       |-> now,
     all_items |-> all_items,
     deduped   |-> deduped,
     out       |-> SortByScoreDesc(deduped)]

HarvestScored(gg, nih, nsf, keywords, now, all_items) ==
    HarvestDeduped(gg, nih, nsf, keywords, now, all_items, Dedup(all_items))

\* main of brassloom_harvest.py from the scoring on
HarvestFetched(gg, nih, nsf, keywords, now) ==
    HarvestScored(gg, nih, nsf, keywords, now, ScoreAll(gg \o nih \o nsf, keywords, now))

HarvestWith(f, days, keywords, now) ==
    HarvestFetched(Fetched(f[1], fetch_grants_gov(f[1].data, days, now)),
                   Fetched(f[2], RssFilter(fetch_rss(f[2].data, SrcNIH), keywords)),
                   Fetched(f[3], RssFilter(fetch_rss(f[3].data, SrcNSF), keywords)),
                   keywords, now)

\* main of brassloom_harvest.py: f is what the three fetches return
\* (<<Grants.gov, NIH, NSF>>, each [ok, data]), now is the clock
HarvestRun(f, days, kwstr, now) == HarvestWith(f, days, ParseKeywords(kwstr), now)

\* the command line the orchestrator builds for the sync step
CliSyncArgs(sync_filter) ==
    IF sync_filter # <<>>
    THEN [all |-> FALSE, filter |-> sync_filter]
    ELSE [all |-> TRUE, filter |-> <<>>]

(***************************************************************************)
(* Inputs: what the feeds return, the command lines, the configuration     *)
(* file and the workbook the runs start from.                              *)
(***************************************************************************)
MaxFetch == 2   \* longest Grants.gov result list
MaxRuns == 2    \* sync runs in one behaviour

Date(y, m, d) == [y |-> y, m |-> m, d |-> d]

Opp1 ==
    [opportunityNumber |-> <<"G","1">>,
     opportunityId     |-> <<"1">>,
     title             |-> <<"H","B","C","U"," ","L","a","b">>,
     agency            |-> <<"N","S","F">>,
     cfdaNumber        |-> <<"4","7",".","0","7","6">>,
     openDate          |-> <<"2","0","2","5","-","0","6","-","0","1">>,
     closeDate         |-> <<"2","0","2","5","-","0","6","-","3","0">>,
     eligibility       |-> <<<<"M","S","I">>, <<"P","u","b","l","i","c">>>>,
     url               |-> <<"h","t","t","p",":","/","/","u","/","1">>,
     category          |-> <<<<"E","D">>>>,
     synopsis          |-> <<"T","r","i","b","a","l"," ","c","o","l","l","e","g","e","s">>]
Opp2 ==
    [opportunityNumber |-> PyNone,
     opportunityId     |-> <<"7","7">>,
     title             |-> <<" ","S","t","a","t","e"," ","G","r","a","n","t">>,
     agency            |-> <<"S","t","a","t","e"," ","B","o","a","r","d">>,
     cfdaNumber        |-> <<>>,
     openDate          |-> <<"0","3","/","0","1","/","2","0","2","5">>,
     closeDate         |-> <<"T","B","D">>,
     eligibility       |-> <<>>,
     url               |-> PyNone,
     category          |-> <<>>,
     synopsis          |-> <<>>]
Opp3 ==
    [opportunityNumber |-> <<"G","3">>,
     opportunityId     |-> <<"3">>,
     title             |-> <<"T","r","i","b","a","l"," ","E","d">>,
     agency            |-> <<"D","e","p","t">>,
     cfdaNumber        |-> <<>>,
     openDate          |-> <<>>,
     closeDate         |-> <<"2","0","2","5","-","0","7","-","3","1","T","0","0",":","0","0",":","0","0">>,
     eligibility       |-> <<>>,
     url               |-> <<"h","t","t","p",":","/","/","u","/","1">>,
     category          |-> <<>>,
     synopsis          |-> <<>>]
Entry1 ==
    [id        |-> <<"n","1">>,
     link      |-> <<"h","t","t","p",":","/","/","u","/","1">>,
     title     |-> <<"M","S","I"," ","H","B","C","U"," ","a","w","a","r","d">>,
     summary   |-> <<>>,
     published |-> NoDate]
Entry2 ==
    [id        |-> <<"n","2">>,
     link      |-> <<>>,
     title     |-> <<"t","r","i","b","a","l"," ","E","D"," ">>,
     summary   |-> <<"x">>,
     published |-> Date(2025, 6, 10)]
Entry3 ==
    [id        |-> <<"n","2">>,
     link      |-> <<>>,
     title     |-> <<>>,
     summary   |-> <<" ","E","P","S","C","o","R"," ","t","r","i","b","a","l">>,
     published |-> NoDate]
Entry4 ==
    [id        |-> <<"s","4">>,
     link      |-> <<"h","t","t","p",":","/","/","u","/","4">>,
     title     |-> <<"B","l","a","c","k"," ","h","o","l","e","s">>,
     summary   |-> <<>>,
     published |-> NoDate]

RECURSIVE SeqsUpTo(_, _)
\* the sequences over S of length at most n
SeqsUpTo(S, n) ==
    IF n = 0 THEN {<<>>}
    ELSE LET shorter == SeqsUpTo(S, n - 1)
         IN  shorter \cup {Append(q, x) : q \in shorter, x \in S}

FetchFailed == [ok |-> FALSE, data |-> <<>>]
FetchOk(data) == [ok |-> TRUE, data |-> data]

GGResults  == {FetchFailed} \cup {FetchOk(d) : d \in SeqsUpTo({Opp1, Opp2, Opp3}, MaxFetch)}
NIHResults ==
    {FetchFailed, FetchOk(<<Entry1>>), FetchOk(<<Entry1, Entry2>>), FetchOk(<<Entry2, Entry1>>)}
NSFResults ==
    {FetchFailed, FetchOk(<<Entry3>>), FetchOk(<<Entry4, Entry3>>)}

CliKeywords == <<"H","B","C","U",",","M","S","I",",","m","i","n","o","r","i","t","y"," ","s","e","r","v","i","n","g",",","H","S","I",",","T","r","i","b","a","l",",","T","C","U",",","B","l","a","c","k",",","b","r","o","a","d","e","n","i","n","g"," ","p","a","r","t","i","c","i","p","a","t","i","o","n",",","E","P","S","C","o","R">>
CliDays == 60

\* --days and --keywords of the harvester runs
HarvestArgs ==
    {[days |-> CliDays, keywords |-> CliKeywords],
     [days |-> 20, keywords |-> <<" ","T","r","i","b","a","l"," ",",",",","E","P","S","C","o","R">>]}

\* instants the harvester runs at: the start and a later tick of three days
HarvestDays == {Date(2025, 6, 30), Date(2025, 5, 30), Date(2025, 4, 30)}
HarvestClock == {Midnight(dt) + t : dt \in HarvestDays, t \in 0..(TicksPerDay - 1)}

\* date.today() of the sync runs
Todays == {Date(2024, 2, 1)}

DefaultPI ==
    [id      |-> <<"P","I","-","1">>,
     name    |-> <<"A","."," ","L","e","e">>,
     dept    |-> <<"B","i","o">>,
     college |-> <<"C","A","S">>]

CfgA ==
    [present |-> {"default_pi", "keywords", "mechanism_map"},
     default_pi |-> DefaultPI,
     keywords |-> <<<<"H","B","C","U">>, <<"M","S","I">>>>,
     mechanism_map |-> <<[k |-> <<"N","I","H">>, v |-> <<"A","S","S","I","S","T">>],
                         [k |-> <<"G","r","a","n","t","s",".","g","o","v">>, v |-> <<"G","r","a","n","t","s",".","g","o","v">>]>>,
     internal_deadline_offset_days |-> 0,
     default_proposal_type |-> <<>>,
     default_status |-> <<>>]

CfgB ==
    [present |-> {"default_pi", "keywords", "mechanism_map", "internal_deadline_offset_days",
                  "default_status"},
     default_pi |-> DefaultPI,
     keywords |-> <<<<"T","r","i","b","a","l">>>>,
     mechanism_map |-> <<[k |-> <<"N","I","H">>, v |-> <<"A","S","S","I","S","T">>]>>,
     internal_deadline_offset_days |-> 3,
     default_proposal_type |-> <<>>,
     default_status |-> <<"D","r","a","f","t">>]

CfgPool == {CfgA, CfgB}

\* a Proposals row someone entered by hand: an id and a title, the rest empty
ExistingRow(pid, title) ==
    [i \in 1..32 |-> IF i = ColProposalID THEN pid
                     ELSE IF i = ColTitle THEN title
                     ELSE PyNone]

\* a Tasks row already in the workbook
ExistingTask(tid) ==
    <<tid, PyNone, <<"t">>, PyNone, PyNone, Pending, PyNone>>

Workbook0 == [P |-> <<>>, T |-> <<>>]
Workbook1 ==
    [P |-> <<ExistingRow(<<"G","S","U","-","P","-","0","0","0","3">>, <<" ","T","R","I","B","A","L"," ","e","d">>),
             ExistingRow(<<"G","S","U","-","P","-","0","0","0","1">>, <<"H","B","C","U"," "," ","L","a","b">>)>>,
     T |-> <<ExistingTask(<<"T","S","K","-","0","0","0","5">>), ExistingTask(<<"T","S","K","-","0","0","0","2">>)>>]
Workbook2 ==
    [P |-> <<ExistingRow(<<"G","S","U","-","P","-","1","2">>, <<"H","b","c","u"," ","L","a","b">>),
             ExistingRow(PyNone, PyNone),
             ExistingRow(<<"P","-","4","0">>, PyNone)>>,
     T |-> <<ExistingTask(<<"T","S","K","-","0","0","0","1">>), ExistingTask(PyNone),
             ExistingTask(<<"T","S","K","-","0","0","0","2">>)>>]
Workbook3 ==
    [P |-> <<ExistingRow(<<"G","S","U","-","P","-","9","9","9","9">>, <<"Z">>)>>,
     T |-> <<ExistingTask(<<"T","S","K","-","9","9","9","8">>)>>]

WorkbookPool == {Workbook0, Workbook1, Workbook2, Workbook3}

\* what the feeds return to the harvester run that wrote the opportunities
\* file the sync runs start from, and to the orchestrator's harvester runs
SyncFetches ==
    {<<FetchOk(<<Opp1, Opp2>>), FetchOk(<<Entry2>>), FetchOk(<<Entry4>>)>>,
     <<FetchOk(<<Opp3>>), FetchOk(<<Entry2, Entry1>>), FetchOk(<<Entry4, Entry3>>)>>,
     <<FetchFailed, FetchOk(<<Entry1>>), FetchFailed>>}
CliFetches ==
    {<<FetchOk(<<Opp1, Opp2>>), FetchOk(<<Entry2>>), FetchOk(<<Entry4>>)>>,
     <<FetchOk(<<Opp3>>), FetchOk(<<Entry2, Entry1>>), FetchOk(<<Entry4, Entry3>>)>>}
SyncClock == Midnight(Date(2025, 6, 30)) + 1

\* --all / --filter of the sync runs started by hand
SyncArgs ==
    {[all |-> TRUE, filter |-> <<>>],
     [all |-> FALSE, filter |-> <<>>],
     [all |-> FALSE, filter |-> <<" ","S","t","a","t","e"," ",",">>]}
\* --sync_filter of the orchestrator
SyncFilters == {<<>>, <<"t","r","i","b","a","l">>}

NoHarvest ==
    [ran |-> FALSE, gg |-> <<>>, nih |-> <<>>, nsf |-> <<>>, keywords |-> <<>>, now |-> 0,
     all_items |-> <<>>, deduped |-> <<>>, out |-> <<>>]

NoSync ==
    [ran |-> FALSE, run |-> 0, cli |-> FALSE, sync_filter |-> <<>>,
     args |-> [all |-> FALSE, filter |-> <<>>], today |-> NoDate,
     nP0 |-> 0, nT0 |-> 0, added |-> 0, imported |-> <<>>, raised |-> FALSE,
     repeat |-> FALSE, prev_added |-> 0]

(***************************************************************************)
(* Actions                                                                 *)
(***************************************************************************)
\* one run of brassloom_harvest.py
HarvestMain(f, a, now) ==
    \E h \in {HarvestRun(f, a.days, a.keywords, now)} :
        /\ opportunities' = h.out
        /\ harvest' = h
        /\ UNCHANGED <<wsP, wsT, cfg, last>>

\* the sync step on the file ops: the workbook is saved only when main
\* reaches wb.save
SyncStep(ops, args, today, cli, sync_filter) ==
    \E r \in {SyncRun(ops, wsP, wsT, cfg, args, today)} :
        /\ last.run < MaxRuns
        /\ wsP' = IF r.raised THEN wsP ELSE r.P
        /\ wsT' = IF r.raised THEN wsT ELSE r.T
        /\ last' = [ran         |-> TRUE,
                    run         |-> last.run + 1,
                    cli         |-> cli,
                    sync_filter |-> sync_filter,
                    args        |-> args,
                    today       |-> today,
                    nP0         |-> Len(wsP),
                    nT0         |-> Len(wsT),
                    added       |-> IF r.raised THEN 0 ELSE r.added,
                    imported    |-> IF r.raised THEN <<>> ELSE r.imported,
                    raised      |-> r.raised,
                    repeat      |-> last.ran /\ last.args = args /\ ops = opportunities,
                    prev_added  |-> last.added]
        /\ UNCHANGED cfg

\* one run of brassloom_sync_gsu.py
SyncMain(args, today) ==
    /\ SyncStep(opportunities, args, today, FALSE, <<>>)
    /\ UNCHANGED <<opportunities, harvest>>

\* one run of brassloom_cli.py: the harvester writes the opportunities file,
\* then the sync step reads the file it wrote
CliMain(f, now, sync_filter) ==
    /\ \E h \in {HarvestRun(f, CliDays, CliKeywords, now)} :
           /\ opportunities' = h.out
           /\ harvest' = h
    /\ SyncStep(opportunities', CliSyncArgs(sync_filter), FromOrdinal(DayOf(now)), TRUE,
                sync_filter)

(***************************************************************************)
(* Specifications                                                          *)
(***************************************************************************)
\* the harvester alone: one run, on whatever the feeds return
InitHarvest ==
    /\ opportunities = <<>>
    /\ wsP = <<>>
    /\ wsT = <<>>
    /\ cfg = CfgA
    /\ harvest = NoHarvest
    /\ last = NoSync

NextHarvest ==
    /\ ~harvest.ran
    /\ \E f \in GGResults \X NIHResults \X NSFResults, a \in HarvestArgs, now \in HarvestClock :
        HarvestMain(f, a, now)

SpecHarvest == InitHarvest /\ [][NextHarvest]_vars

\* sync runs, by hand or through the orchestrator, on a workbook and an
\* opportunities file an earlier harvester run wrote
Init ==
    /\ \E f \in SyncFetches : opportunities = HarvestRun(f, CliDays, CliKeywords, SyncClock).out
    /\ \E w \in WorkbookPool : wsP = w.P /\ wsT = w.T
    /\ cfg \in CfgPool
    /\ harvest = NoHarvest
    /\ last = NoSync

Next ==
    \/ \E args \in SyncArgs, today \in Todays : SyncMain(args, today)
    \/ \E f \in CliFetches, s \in SyncFilters : CliMain(f, SyncClock, s)

Spec == Init /\ [][Next]_vars

(***************************************************************************)
(* Properties                                                              *)
(***************************************************************************)
\* the rows the workbook held before the last sync run, and those it added
OldP == SubSeq(wsP, 1, last.nP0)
NewP == SubSeq(wsP, last.nP0 + 1, Len(wsP))
OldT == SubSeq(wsT, 1, last.nT0)
NewT == SubSeq(wsT, last.nT0 + 1, Len(wsT))

ColTaskID == 1
ColTaskProposal == 2
ColTaskName == 3
ColTaskDue == 4
ColTaskStatus == 6

\* the numeric suffixes of the ids in column 1 of rows that read prefix<digits>
Suffixes(rows, prefix) ==
    {ToInt(MatchNum(prefix, Str(rows[i][1]))) :
        i \in {j \in 1..Len(rows) : MatchNum(prefix, Str(rows[j][1])) # <<>>}}

\* the largest of them, 0 when there is none
MaxSuffix(rows, prefix) ==
    IF Suffixes(rows, prefix) = {} THEN 0
    ELSE CHOOSE n \in Suffixes(rows, prefix) : \A m \in Suffixes(rows, prefix) : m <= n

\* a title trimmed and lower-cased
Normalized(title) == Lower(Strip(title))

\* C1: in a sync run the k-th task id assigned is TSK- followed by M + k padded
\* to four digits, M the largest suffix among the task ids the workbook held
\* (0 if none); so no assigned id equals an id of the workbook or another
\* assigned id.
C1_TaskIdsFollowMax ==
    last.ran =>
        /\ \A k \in 1..Len(NewT) :
              NewT[k][ColTaskID] = TskPrefix \o Fmt(MaxSuffix(OldT, TskPrefix) + k, 4)
        /\ \A k \in 1..Len(NewT) :
              /\ \A j \in 1..Len(OldT) : OldT[j][ColTaskID] # NewT[k][ColTaskID]
              /\ \A j \in 1..Len(NewT) : j # k => NewT[j][ColTaskID] # NewT[k][ColTaskID]

\* C2: the n-th proposal imported in a run gets GSU-P- followed by M + n padded
\* to four digits, M the largest suffix among the GSU-P-<digits> ids the
\* workbook held (0 if none: the first id is then GSU-P-0001, and after
\* {GSU-P-0001, GSU-P-0003} it is GSU-P-0004); the ids assigned in a run
\* increase strictly and differ from every id the workbook held.
C2_ProposalIds ==
    last.ran =>
        /\ \A n \in 1..Len(NewP) :
              /\ NewP[n][ColProposalID] = PidPrefix \o Fmt(MaxSuffix(OldP, PidPrefix) + n, 4)
              /\ \A j \in 1..Len(OldP) : OldP[j][ColProposalID] # NewP[n][ColProposalID]
              /\ \A j \in 1..(n - 1) :
                    ToInt(MatchNum(PidPrefix, NewP[j][ColProposalID]))
                        < ToInt(MatchNum(PidPrefix, NewP[n][ColProposalID]))
        /\ (Len(NewP) > 0 /\ Suffixes(OldP, PidPrefix) = {}
               => NewP[1][ColProposalID] = <<"G","S","U","-","P","-","0","0","0","1">>)
        /\ (Len(NewP) > 0 /\ Suffixes(OldP, PidPrefix) = {1, 3}
               => NewP[1][ColProposalID] = <<"G","S","U","-","P","-","0","0","0","4">>)

\* C2 witness: a run that imported two proposals into the workbook holding
\* GSU-P-0003 and GSU-P-0001, in that order
C2_Witness ==
    /\ last.ran
    /\ Len(NewP) >= 2
    /\ Suffixes(OldP, PidPrefix) = {1, 3}
    /\ OldP[1][ColProposalID] = <<"G","S","U","-","P","-","0","0","0","3">>

\* the records of the file with the dedup key of the harvester
RecordKey(r) == IF Truthy(r.url) THEN r.url ELSE r.id

\* C3: no two proposal rows appended in one run have titles equal after
\* trimming and lower-casing, and no appended row's normalized title is that of
\* a row the workbook held when the run started.
C3_NoDuplicateTitles ==
    last.ran =>
        /\ \A i, j \in 1..Len(NewP) :
              i # j => Normalized(NewP[i][ColTitle]) # Normalized(NewP[j][ColTitle])
        /\ \A i \in 1..Len(NewP), j \in 1..Len(OldP) :
              Truthy(OldP[j][ColTitle])
                  => Normalized(OldP[j][ColTitle]) # Normalized(NewP[i][ColTitle])

\* C3 witness: the file held two records with different keys and the same
\* normalized title, differing in case, and the run imported that title
C3_Witness ==
    /\ last.ran
    /\ \E a, b \in 1..Len(opportunities) :
          /\ a < b
          /\ RecordKey(opportunities[a]) # RecordKey(opportunities[b])
          /\ Truthy(opportunities[a].title)
          /\ Truthy(opportunities[b].title)
          /\ Strip(opportunities[a].title) # Strip(opportunities[b].title)
          /\ NormTitle(opportunities[a]) = NormTitle(opportunities[b])
          /\ \E n \in 1..Len(NewP) :
                Normalized(NewP[n][ColTitle]) = NormTitle(opportunities[a])

\* the urgency bonus the spec gives a record closing days_left calendar days
\* after today
SpecBonus(days_left) ==
    IF 0 <= days_left /\ days_left <= 30 THEN 10
    ELSE IF 31 <= days_left /\ days_left <= 60 THEN 5
    ELSE 0

\* the part of a scored record's score that is not keyword points
ScoredBonus(r) == r.hbcu_msi_score - TextPoints(ScoreText(r), harvest.keywords)

\* the calendar days from the day of the harvester's clock to the close date
CalendarDaysLeft(r) == ToOrdinal(FromIsoFormat(Take(r.close_date, 10))) - DayOf(harvest.now)

HasIsoClose(r) ==
    Truthy(r.close_date) /\ FromIsoFormat(Take(r.close_date, 10)) # NoDate

\* C4: for every record whose close_date parses as an ISO date, whatever the
\* time of day, the urgency bonus in its score is 10 when the close date is 0
\* to 30 calendar days after today, 5 when 31 to 60, and 0 otherwise.
C4_UrgencyByCalendarDays ==
    harvest.ran =>
        \A i \in 1..Len(harvest.all_items) :
            HasIsoClose(harvest.all_items[i])
                => ScoredBonus(harvest.all_items[i])
                       = SpecBonus(CalendarDaysLeft(harvest.all_items[i]))

\* the first place of a key in the scored list
FirstWithKey(items, key) ==
    CHOOSE i \in 1..Len(items) :
        /\ RecordKey(items[i]) = key
        /\ \A j \in 1..(i - 1) : RecordKey(items[j]) # key

Unscored(r) == [r EXCEPT !.hbcu_msi_score = 0]

\* C5: the scored list is the Grants.gov records, then the NIH ones, then the
\* NSF ones; for each dedup key (url if present, else id) in it the harvester's
\* output holds exactly one record, the first with that key in the list, and
\* nothing else.
C5_DedupKeepsFirst ==
    harvest.ran =>
        /\ [i \in 1..Len(harvest.all_items) |-> Unscored(harvest.all_items[i])]
               = harvest.gg \o harvest.nih \o harvest.nsf
        /\ \A i \in 1..Len(harvest.all_items) :
              LET key == RecordKey(harvest.all_items[i])
              IN  /\ Cardinality({j \in 1..Len(opportunities) :
                                      RecordKey(opportunities[j]) = key}) = 1
                  /\ \E j \in 1..Len(opportunities) :
                        opportunities[j]
                            = harvest.all_items[FirstWithKey(harvest.all_items, key)]
        /\ \A j \in 1..Len(opportunities) :
              \E i \in 1..Len(harvest.all_items) : harvest.all_items[i] = opportunities[j]

\* C5 witness: an RSS record had the url of an earlier Grants.gov record and a
\* record with an empty url had the id of an earlier one; both were dropped
C5_Witness ==
    /\ harvest.ran
    /\ \E i, j \in 1..Len(harvest.all_items) :
          /\ i < j
          /\ i <= Len(harvest.gg)
          /\ j > Len(harvest.gg)
          /\ Truthy(harvest.all_items[j].url)
          /\ harvest.all_items[i].url = harvest.all_items[j].url
          /\ harvest.all_items[i] # harvest.all_items[j]
    /\ \E i, j \in 1..Len(harvest.all_items) :
          /\ i < j
          /\ ~Truthy(harvest.all_items[j].url)
          /\ RecordKey(harvest.all_items[i]) = harvest.all_items[j].id
          /\ harvest.all_items[i] # harvest.all_items[j]
    /\ Len(opportunities) >= 2

\* the place of a record in the de-duplicated list
PlaceInDeduped(r) == CHOOSE i \in 1..Len(harvest.deduped) : harvest.deduped[i] = r

\* C6: the list the harvester writes is ordered by score, highest first, and
\* records of equal score keep the order they had in the de-duplicated list.
C6_SortedStable ==
    harvest.ran =>
        /\ Len(opportunities) = Len(harvest.deduped)
        /\ \A i \in 1..Len(harvest.deduped) :
              \E j \in 1..Len(opportunities) : opportunities[j] = harvest.deduped[i]
        /\ \A i, j \in 1..Len(opportunities) :
              i < j =>
                  /\ opportunities[i].hbcu_msi_score >= opportunities[j].hbcu_msi_score
                  /\ (opportunities[i].hbcu_msi_score = opportunities[j].hbcu_msi_score
                         => PlaceInDeduped(opportunities[i]) < PlaceInDeduped(opportunities[j]))

\* C6 witness: the sort moved a record forward past a lower score and left two
\* records of equal score in place
C6_Witness ==
    /\ harvest.ran
    /\ opportunities # harvest.deduped
    /\ \E i, j \in 1..Len(opportunities) :
          /\ i < j
          /\ opportunities[i].hbcu_msi_score = opportunities[j].hbcu_msi_score

\* the days before the anchor of the seven tasks, in the order of the rows
TaskOffsets == <<10, 9, 8, 8, 7, 7, 7>>

\* the task rows appended for the n-th proposal row appended
TasksOf(n) == SubSeq(NewT, Len(TaskOffsets) * (n - 1) + 1, Len(TaskOffsets) * n)

\* the anchor of the tasks of a proposal row: its due date, else today + 30
AnchorOf(row) ==
    IF row[ColDueDate] # <<>> THEN FromIsoFormat(row[ColDueDate])
    ELSE FromOrdinal(ToOrdinal(last.today) + 30)

ColMechanism == 13

\* C7: a sync run appends 7 task rows per proposal row it appends; the seven
\* rows of a proposal carry its id and status Pending, come in the fixed order
\* of the task table and are due 10, 9, 8, 8, 7, 7, 7 days before the anchor,
\* the proposal's due date when it has one and today + 30 days otherwise; a
\* due date of 2025-06-30 gives 06-20, 06-21, 06-22, 06-22, 06-23, 06-23, 06-23.
C7_SevenTasks ==
    last.ran =>
        /\ Len(NewT) = 7 * Len(NewP)
        /\ \A n \in 1..Len(NewP) :
              /\ \A k \in 1..7 :
                    /\ TasksOf(n)[k][ColTaskProposal] = NewP[n][ColProposalID]
                    /\ TasksOf(n)[k][ColTaskStatus] = Pending
                    /\ TasksOf(n)[k][ColTaskName] = TaskTable(NewP[n][ColMechanism])[k].name
                    /\ TasksOf(n)[k][ColTaskDue]
                           = IsoFormat(FromOrdinal(ToOrdinal(AnchorOf(NewP[n])) - TaskOffsets[k]))
              /\ (NewP[n][ColDueDate] = <<"2","0","2","5","-","0","6","-","3","0">>
                     => [k \in 1..7 |-> TasksOf(n)[k][ColTaskDue]]
                            = <<<<"2","0","2","5","-","0","6","-","2","0">>, <<"2","0","2","5","-","0","6","-","2","1">>, <<"2","0","2","5","-","0","6","-","2","2">>, <<"2","0","2","5","-","0","6","-","2","2">>, <<"2","0","2","5","-","0","6","-","2","3">>, <<"2","0","2","5","-","0","6","-","2","3">>, <<"2","0","2","5","-","0","6","-","2","3">>>>)

\* C7 witness: one run appended a proposal due 2025-06-30 and a proposal with
\* no due date, whose tasks hang on today + 30
C7_Witness ==
    /\ last.ran
    /\ \E n \in 1..Len(NewP) : NewP[n][ColDueDate] = <<"2","0","2","5","-","0","6","-","3","0">>
    /\ \E n \in 1..Len(NewP) : NewP[n][ColDueDate] = <<>>
    /\ Len(NewT) >= 14

\* the date a record's field gives the due date: empty when it does not parse
FieldDate(s) == IF parse_date(s) # NoDate THEN IsoFormat(parse_date(s)) ELSE <<>>

\* the configured offset of the internal deadline, 7 by default
ConfiguredOffset ==
    IF "internal_deadline_offset_days" \in cfg.present
    THEN cfg.internal_deadline_offset_days ELSE 7

\* C8: the due date of an imported record's row is its close_date if that is
\* present and parses, else its posted_date if that is present and parses,
\* else empty; the internal deadline is the due date minus the configured
\* offset (7 days by default), and empty when the due date is empty.
C8_DueAndInternal ==
    last.ran =>
        /\ Len(last.imported) = Len(NewP)
        /\ \A n \in 1..Len(NewP) :
              /\ NewP[n][ColDueDate]
                     = IF FieldDate(last.imported[n].close_date) # <<>>
                       THEN FieldDate(last.imported[n].close_date)
                       ELSE FieldDate(last.imported[n].posted_date)
              /\ NewP[n][ColInternalDeadline]
                     = IF NewP[n][ColDueDate] = <<>> THEN <<>>
                       ELSE IsoFormat(FromOrdinal(
                                ToOrdinal(FromIsoFormat(NewP[n][ColDueDate])) - ConfiguredOffset))

\* C8 witness: with no offset configured a run imported a record whose
\* close_date is text that is no date and whose posted_date is 03/01/2025: the
\* row is due 2025-03-01 with internal deadline 2025-02-22; the run also
\* imported a record with a close date and one with no date at all
C8_Witness ==
    /\ last.ran
    /\ "internal_deadline_offset_days" \notin cfg.present
    /\ \E n \in 1..Len(NewP) :
          /\ Truthy(last.imported[n].close_date)
          /\ parse_date(last.imported[n].close_date) = NoDate
          /\ NewP[n][ColDueDate] = <<"2","0","2","5","-","0","3","-","0","1">>
          /\ NewP[n][ColInternalDeadline] = <<"2","0","2","5","-","0","2","-","2","2">>
    /\ \E n \in 1..Len(NewP) :
          /\ parse_date(last.imported[n].close_date) # NoDate
          /\ NewP[n][ColDueDate] # <<>>

\* s is a prefix of t
IsPrefix(s, t) == Len(s) <= Len(t) /\ SubSeq(t, 1, Len(s)) = s

\* C9: a sync run that repeats the previous one (same opportunities list, same
\* filter mode, on the workbook the previous run left) imports 0 records and
\* appends no proposal row and no task row; and every step leaves the rows the
\* workbook held in place and unchanged, rows are only appended.
C9_IdempotentAppendOnly ==
    /\ [](last.repeat =>
            /\ last.added = 0
            /\ Len(wsP) = last.nP0
            /\ Len(wsT) = last.nT0)
    /\ [][IsPrefix(wsP, wsP') /\ IsPrefix(wsT, wsT')]_vars

\* C9 witness: the repeated run follows a run that imported records
C9_Witness ==
    /\ last.repeat
    /\ ~last.raised
    /\ last.prev_added > 0
    /\ last.nP0 > 0

\* the configuration's keywords, lower-cased as the sync engine compares them
ConfigKeywords == {Lower(cfg.keywords[i]) : i \in 1..Len(cfg.keywords)}

\* C10: run without --sync_filter, the orchestrator's sync step imports only
\* records whose serialized text contains one of the configuration's keywords.
C10_DefaultUsesConfigKeywords ==
    (last.ran /\ last.cli /\ last.sync_filter = <<>>) =>
        \A n \in 1..Len(last.imported) :
            \E kw \in ConfigKeywords : Contains(kw, Lower(JsonDumps(last.imported[n])))

====
